---- MODULE Spec2Model ----
(***************************************************************************)
(* Test impact analyzer: git.py (GitRepo), test_analyzer.py (TestAnalyzer), *)
(* analyze_direct_changes.py (HelperAnalyzer) and test_impact_analyzer.py   *)
(* (TestImpactAnalyzer).                                                    *)
(*                                                                          *)
(* A Python str is a sequence of one-character strings; "\n" is the line    *)
(* break.  The texts of the model hold no "\r".                             *)
(***************************************************************************)
EXTENDS Integers, Sequences, FiniteSets, TLC

VARIABLES
    pc,              \* position of the run
    diff_output,     \* GitRepo.get_changed_lines: the diff text it parses
    changed_lines,   \* GitRepo.get_changed_lines: its result
    span_kind,       \* "test" (_find_test_end) or "function" (_find_function_end)
    span_lines,      \* the lines argument of the span scan
    span_start,      \* its start_line argument
    span_end,        \* its result
    repo,            \* what the git subcommands print in the analysed repository
    test_files,      \* analyze_commit: the test files still to analyse
    helper_files,    \* analyze_commit: the helper files still to analyse
    all_impacts,     \* analyze_commit: the list it builds and returns
    origin,          \* for each item of all_impacts, "direct" or "helper":
                     \* the analysis that appended it
    calls,           \* for each helper file analysed: its status, the list of
                     \* changed functions, and whether the correlator was called
    unique_impacts,  \* print_results: the list without duplicates
    ext_kind,        \* the extractor that runs: "tests" or "functions"
    ext_content,     \* the text handed to the extractor
    ext_blocks       \* the dict the extractor returned

diffVars == <<diff_output, changed_lines>>
spanVars == <<span_kind, span_lines, span_start, span_end>>
runVars ==
    <<repo, test_files, helper_files, all_impacts, origin, calls,
      unique_impacts>>
extractVars == <<ext_kind, ext_content, ext_blocks>>
vars == <<pc, diffVars, spanVars, runVars, extractVars>>

(***************************************************************************)
(* Bounds                                                                   *)
(***************************************************************************)
MaxDiffLines == 3
MaxSpanLines == 4
MaxDeleted == 1
MaxImpacts == 3
MaxExtractLines == 3

(***************************************************************************)
(* The variables of an operation that a specification does not exercise     *)
(***************************************************************************)
DiffIdle == diff_output = <<>> /\ changed_lines = {}

SpanIdle ==
    /\ span_kind = "test"
    /\ span_lines = <<>>
    /\ span_start = 0
    /\ span_end = 0

ExtractIdle ==
    /\ ext_kind = "tests"
    /\ ext_content = <<>>
    /\ ext_blocks = <<>>

RunIdle ==
    /\ repo = [name_status |-> <<>>, rev_parse |-> <<>>, show |-> <<>>,
               diff |-> <<>>, diff_head |-> <<>>, ls_files |-> <<>>,
               failed |-> {}]
    /\ test_files = <<>>
    /\ helper_files = <<>>
    /\ all_impacts = <<>>
    /\ origin = <<>>
    /\ calls = <<>>
    /\ unique_impacts = <<>>

(***************************************************************************)
(* str primitives                                                           *)
(***************************************************************************)
NL == "\n"

Digits == {"0","1","2","3","4","5","6","7","8","9"}

LowerLetters ==
    {"a","b","c","d","e","f","g","h","i","j","k","l","m",
     "n","o","p","q","r","s","t","u","v","w","x","y","z"}

UpperLetters ==
    {"A","B","C","D","E","F","G","H","I","J","K","L","M",
     "N","O","P","Q","R","S","T","U","V","W","X","Y","Z"}

\* \w of the re module, on the ASCII characters
WordChars == LowerLetters \cup UpperLetters \cup Digits \cup {"_"}

\* \s of the re module (the line break included)
SpaceChars == {" ", "\t", NL}

\* s[i], or "" (no character) outside the string
CharAt(s, i) == IF i \in 1..Len(s) THEN s[i] ELSE ""

\* the literal lit stands in s at index i
MatchAt(s, i, lit) ==
    /\ i >= 1
    /\ i + Len(lit) - 1 <= Len(s)
    /\ \A k \in 1..Len(lit) : s[i + k - 1] = lit[k]

\* str.startswith
StartsWith(s, lit) == MatchAt(s, 1, lit)

\* str.endswith
EndsWith(s, lit) == MatchAt(s, Len(s) - Len(lit) + 1, lit)

\* index after the longest run of characters of cls that starts at i
RECURSIVE RunEnd(_, _, _)
RunEnd(s, i, cls) ==
    IF CharAt(s, i) \in cls THEN RunEnd(s, i + 1, cls) ELSE i

\* str.split('\n')
RECURSIVE Split(_)
Split(s) ==
    IF \A k \in 1..Len(s) : s[k] # NL
    THEN <<s>>
    ELSE LET k == CHOOSE j \in 1..Len(s) :
                      s[j] = NL /\ \A h \in 1..(j - 1) : s[h] # NL
         IN <<SubSeq(s, 1, k - 1)>> \o Split(SubSeq(s, k + 1, Len(s)))

\* '\n'.join
RECURSIVE Join(_)
Join(ls) ==
    IF Len(ls) = 0 THEN <<>>
    ELSE IF Len(ls) = 1 THEN ls[1]
    ELSE ls[1] \o <<NL>> \o Join(Tail(ls))

DigitVal(c) ==
    CASE c = "0" -> 0 [] c = "1" -> 1 [] c = "2" -> 2 [] c = "3" -> 3
      [] c = "4" -> 4 [] c = "5" -> 5 [] c = "6" -> 6 [] c = "7" -> 7
      [] c = "8" -> 8 [] c = "9" -> 9

\* int() of a string of decimal digits
RECURSIVE ParseInt(_)
ParseInt(ds) ==
    IF Len(ds) = 0 THEN 0
    ELSE 10 * ParseInt(SubSeq(ds, 1, Len(ds) - 1)) + DigitVal(ds[Len(ds)])

\* str.strip
RECURSIVE Strip(_)
Strip(s) ==
    IF Len(s) = 0 THEN s
    ELSE IF s[1] \in SpaceChars THEN Strip(Tail(s))
    ELSE IF s[Len(s)] \in SpaceChars THEN Strip(SubSeq(s, 1, Len(s) - 1))
    ELSE s

\* the items of a list that satisfy keep, in order
RECURSIVE Filter(_, _)
Filter(xs, keep) ==
    IF Len(xs) = 0 THEN <<>>
    ELSE (IF Head(xs) \in keep THEN <<Head(xs)>> ELSE <<>>)
         \o Filter(Tail(xs), keep)

\* the orders in which the elements of a set can be iterated
Orders(S) ==
    {f \in [1..Cardinality(S) -> S] :
        \A i, j \in 1..Cardinality(S) : i # j => f[i] # f[j]}

\* str.count of one character
CountChar(s, c) == Cardinality({k \in 1..Len(s) : s[k] = c})

\* all sequences over S of length at most n
SeqsUpTo(S, n) == UNION {[1..k -> S] : k \in 0..n}

(***************************************************************************)
(* GitRepo.get_changed_lines (git.py)                                       *)
(***************************************************************************)

\* r'@@ -\d+,?\d* \+(\d+),?\d* @@' matched at index i of line: the index of
\* group 1 and the index after it, or <<0, 0>> when there is no match at i.
\* Every part of the pattern is a run of one character class or a literal, so
\* the greedy match is the only one.
HunkGroupAt(line, i) ==
    IF ~MatchAt(line, i, <<"@","@"," ","-">>) THEN <<0, 0>>
    ELSE
    LET a == i + 4
        b == RunEnd(line, a, Digits)
        c == IF CharAt(line, b) = "," THEN b + 1 ELSE b
        d == RunEnd(line, c, Digits)
        e == d + 2
        f == RunEnd(line, e, Digits)
        g == IF CharAt(line, f) = "," THEN f + 1 ELSE f
        h == RunEnd(line, g, Digits)
    IN IF /\ b > a
          /\ MatchAt(line, d, <<" ","+">>)
          /\ f > e
          /\ MatchAt(line, h, <<" ","@","@">>)
       THEN <<e, f>>
       ELSE <<0, 0>>

\* re.search(...): a match at some index of the line
HunkMatches(line) ==
    \E i \in 1..Len(line) : HunkGroupAt(line, i) # <<0, 0>>

\* int(match.group(1)) of the leftmost match
HunkNewStart(line) ==
    LET i == CHOOSE j \in 1..Len(line) :
                 /\ HunkGroupAt(line, j) # <<0, 0>>
                 /\ \A h \in 1..(j - 1) : HunkGroupAt(line, h) = <<0, 0>>
        grp == HunkGroupAt(line, i)
    IN ParseInt(SubSeq(line, grp[1], grp[2] - 1))

IsHunkLine(line) == StartsWith(line, <<"@","@">>)

IsAddedLine(line) ==
    StartsWith(line, <<"+">>) /\ ~StartsWith(line, <<"+","+","+">>)

IsRemovedLine(line) ==
    StartsWith(line, <<"-">>) /\ ~StartsWith(line, <<"-","-","-">>)

\* the last elif of the loop
IsContextLine(line) ==
    ~StartsWith(line, <<"-">>) /\ ~StartsWith(line, <<"+">>)

AddedLineRecordMut(current_line) == current_line + 1

\* the line number an added line records
AddedLineRecord(current_line) == current_line

RemovedLineRecordMut(current_line) == current_line

\* the line number a removed line records
RemovedLineRecord(current_line) == current_line - 1

\* the loop over diff_output.split('\n'), from line k on
RECURSIVE ScanDiff(_, _, _, _)
ScanDiff(lines, k, current_line, changed) ==
    IF k > Len(lines) THEN changed
    ELSE
    LET line == lines[k] IN
    IF IsHunkLine(line)
    THEN ScanDiff(lines, k + 1,
                  IF HunkMatches(line) THEN HunkNewStart(line)
                  ELSE current_line,
                  changed)
    ELSE IF IsAddedLine(line)
    THEN ScanDiff(lines, k + 1, current_line + 1,
                  changed \cup {AddedLineRecord(current_line)})
    ELSE IF IsRemovedLine(line)
    THEN ScanDiff(lines, k + 1, current_line,
                  changed \cup {RemovedLineRecord(current_line)})
    ELSE IF IsContextLine(line)
    THEN ScanDiff(lines, k + 1, current_line + 1, changed)
    ELSE ScanDiff(lines, k + 1, current_line, changed)

\* get_changed_lines, from the diff text that get_file_diff returned
ChangedLinesOf(diff) == ScanDiff(Split(diff), 1, 0, {})

(***************************************************************************)
(* GitRepo (git.py).  repo holds the standard output of each subcommand:    *)
(*   name_status  git diff --name-status <commit>^..<commit>                *)
(*   rev_parse    git rev-parse <commit>^                                   *)
(*   show         git show <rev>:<path>, for the pairs where it succeeds    *)
(*   diff         git diff --unified=0 <parent>..<commit> -- <path>         *)
(*   diff_head    git diff --unified=0 ..<commit> -- <path>, the range that  *)
(*                starts at HEAD when the parent is the empty string        *)
(*   ls_files     git ls-files '*.spec.ts'                                  *)
(*   failed       the subcommands that exit with a non-zero status, each    *)
(*                raising CalledProcessError in subprocess.run              *)
(***************************************************************************)
CommitSha == <<"c">>
ParentSha == <<"p">>
HeadRev == <<"H","E","A","D">>

\* line.split('\t', 1), then strip() of both parts; every line that
\* --name-status prints holds a tab
NameStatusEntry(line) ==
    LET t == CHOOSE j \in 1..Len(line) :
                 line[j] = "\t" /\ \A h \in 1..(j - 1) : line[h] # "\t"
    IN [status |-> Strip(SubSeq(line, 1, t - 1)),
        file_path |-> Strip(SubSeq(line, t + 1, Len(line)))]

\* subprocess.run(..., check=True) raises CalledProcessError
Fails(r, subcommand) == subcommand \in r.failed

\* except subprocess.CalledProcessError: return []
FailedListing == <<>>

FailedTextMut == <<"x">>

\* except subprocess.CalledProcessError: return ""
FailedText == <<>>

get_commit_files(r, commit_sha) ==
    IF Fails(r, "name_status") THEN FailedListing
    ELSE
    LET lines == Split(Strip(r.name_status))
        kept == Filter(lines, {l \in {lines[k] : k \in 1..Len(lines)} : l # <<>>})
    IN [k \in 1..Len(kept) |-> NameStatusEntry(kept[k])]

\* git show exits with an error for a path the revision does not hold
get_file_content(r, commit_sha, file_path) ==
    IF Fails(r, "show") \/ <<commit_sha, file_path>> \notin DOMAIN r.show
    THEN FailedText
    ELSE r.show[<<commit_sha, file_path>>]

get_parent_commit(r, commit_sha) ==
    IF Fails(r, "rev_parse") THEN FailedText ELSE Strip(r.rev_parse)

\* the parent is asked for inside the try block; an empty parent leaves the
\* range as ..{commit_sha}
get_file_diff(r, commit_sha, file_path) ==
    IF Fails(r, "diff") \/ file_path \notin DOMAIN r.diff THEN FailedText
    ELSE IF get_parent_commit(r, commit_sha) = <<>> THEN r.diff_head[file_path]
    ELSE r.diff[file_path]

get_changed_lines(r, commit_sha, file_path) ==
    ChangedLinesOf(get_file_diff(r, commit_sha, file_path))

get_all_test_files(r) ==
    IF Fails(r, "ls_files") THEN FailedListing
    ELSE
    LET files == Split(Strip(r.ls_files))
    IN Filter(files, {f \in {files[k] : k \in 1..Len(files)} : f # <<>>})

(***************************************************************************)
(* TestAnalyzer._find_test_end (test_analyzer.py) and                       *)
(* HelperAnalyzer._find_function_end (analyze_direct_changes.py)            *)
(***************************************************************************)

\* brace_count += line.count('{'); brace_count -= line.count('}')
BraceDelta(line) == CountChar(line, "{") - CountChar(line, "}")

ClosesTestMut(in_test, brace_count) == in_test /\ brace_count <= 0

\* elif in_test and brace_count == 0
ClosesTest(in_test, brace_count) == in_test /\ brace_count = 0

\* the loop of _find_test_end from line k (1-indexed) on
RECURSIVE FindTestEndFrom(_, _, _, _)
FindTestEndFrom(lines, k, brace_count, in_test) ==
    IF k > Len(lines) THEN Len(lines)
    ELSE
    LET count == brace_count + BraceDelta(lines[k]) IN
    IF count > 0 THEN FindTestEndFrom(lines, k + 1, count, TRUE)
    ELSE IF ClosesTest(in_test, count) THEN k
    ELSE FindTestEndFrom(lines, k + 1, count, in_test)

find_test_endMut(lines, start_line) ==
    FindTestEndFrom(lines, start_line, 0, FALSE) - 1

find_test_end(lines, start_line) ==
    FindTestEndFrom(lines, start_line, 0, FALSE)

\* elif in_function and brace_count == 0
ClosesFunction(in_function, brace_count) == in_function /\ brace_count = 0

\* the loop of _find_function_end from line k (1-indexed) on
RECURSIVE FindFunctionEndFrom(_, _, _, _)
FindFunctionEndFrom(lines, k, brace_count, in_function) ==
    IF k > Len(lines) THEN Len(lines)
    ELSE
    LET count == brace_count + BraceDelta(lines[k]) IN
    IF count > 0 THEN FindFunctionEndFrom(lines, k + 1, count, TRUE)
    ELSE IF ClosesFunction(in_function, count) THEN k
    ELSE FindFunctionEndFrom(lines, k + 1, count, in_function)

find_function_end(lines, start_line) ==
    FindFunctionEndFrom(lines, start_line, 0, FALSE)

(***************************************************************************)
(* dict, as Python keeps it: the items in insertion order, keys unique      *)
(***************************************************************************)
DictKeys(d) == {d[k].name : k \in 1..Len(d)}

\* d[name] = (start, end)
DictSet(d, name, start, end) ==
    IF name \in DictKeys(d)
    THEN [k \in 1..Len(d) |->
            IF d[k].name = name
            THEN [name |-> name, start |-> start, end |-> end]
            ELSE d[k]]
    ELSE Append(d, [name |-> name, start |-> start, end |-> end])

\* d[name]
DictGet(d, name) == d[CHOOSE k \in 1..Len(d) : d[k].name = name]

\* list(d.keys())
DictKeyList(d) == [k \in 1..Len(d) |-> d[k].name]

(***************************************************************************)
(* TestAnalyzer.extract_tests_with_lines (test_analyzer.py)                 *)
(***************************************************************************)
Quotes == {"'", "\""}

\* the literal heads of self.test_patterns, in order
test_patterns == << <<"t","e","s","t","(">>, <<"i","t","(">> >>

\* head['"](.+?)['"] matched at index i of line: the index of group 1 and the
\* index after it (the lazy group ends before the first quote that leaves it
\* one character at least), or <<0, 0>> when there is no match at i
TestGroupAt(line, i, head) ==
    LET q == i + Len(head)
        closing == {c \in (q + 2)..Len(line) : line[c] \in Quotes}
    IN IF /\ MatchAt(line, i, head)
          /\ CharAt(line, q) \in Quotes
          /\ closing # {}
       THEN <<q + 1, CHOOSE c \in closing : \A e \in closing : c <= e>>
       ELSE <<0, 0>>

\* re.search(pattern, line)
TestPatternMatches(line, head) ==
    \E i \in 1..Len(line) : TestGroupAt(line, i, head) # <<0, 0>>

\* match.group(1) of the leftmost match
TestPatternName(line, head) ==
    LET i == CHOOSE j \in 1..Len(line) :
                 /\ TestGroupAt(line, j, head) # <<0, 0>>
                 /\ \A h \in 1..(j - 1) : TestGroupAt(line, h, head) = <<0, 0>>
        grp == TestGroupAt(line, i, head)
    IN SubSeq(line, grp[1], grp[2] - 1)

\* the inner loop over self.test_patterns, from pattern n on, for line k
RECURSIVE TestPatternsFrom(_, _, _, _)
TestPatternsFrom(lines, k, n, tests) ==
    IF n > Len(test_patterns) THEN tests
    ELSE IF TestPatternMatches(lines[k], test_patterns[n])
    THEN TestPatternsFrom(lines, k, n + 1,
             DictSet(tests, TestPatternName(lines[k], test_patterns[n]),
                     k, find_test_end(lines, k)))
    ELSE TestPatternsFrom(lines, k, n + 1, tests)

\* the loop over enumerate(lines, 1), from line k on
RECURSIVE ExtractTestsFrom(_, _, _)
ExtractTestsFrom(lines, k, tests) ==
    IF k > Len(lines) THEN tests
    ELSE ExtractTestsFrom(lines, k + 1, TestPatternsFrom(lines, k, 1, tests))

extract_tests_with_lines(content) == ExtractTestsFrom(Split(content), 1, <<>>)

(***************************************************************************)
(* HelperAnalyzer.extract_functions_with_lines (analyze_direct_changes.py)  *)
(***************************************************************************)
js_keywords ==
    { <<"i","f">>,
      <<"e","l","s","e">>,
      <<"f","o","r">>,
      <<"w","h","i","l","e">>,
      <<"d","o">>,
      <<"s","w","i","t","c","h">>,
      <<"c","a","s","e">>,
      <<"d","e","f","a","u","l","t">>,
      <<"b","r","e","a","k">>,
      <<"c","o","n","t","i","n","u","e">>,
      <<"r","e","t","u","r","n">>,
      <<"f","u","n","c","t","i","o","n">>,
      <<"c","l","a","s","s">>,
      <<"i","n","t","e","r","f","a","c","e">>,
      <<"e","x","t","e","n","d","s">>,
      <<"i","m","p","l","e","m","e","n","t","s">>,
      <<"i","m","p","o","r","t">>,
      <<"e","x","p","o","r","t">>,
      <<"f","r","o","m">>,
      <<"a","s">>,
      <<"c","o","n","s","t">>,
      <<"l","e","t">>,
      <<"v","a","r">>,
      <<"t","y","p","e","o","f">>,
      <<"i","n","s","t","a","n","c","e","o","f">>,
      <<"n","e","w">>,
      <<"d","e","l","e","t","e">>,
      <<"v","o","i","d">>,
      <<"t","h","i","s">>,
      <<"s","u","p","e","r">>,
      <<"t","r","y">>,
      <<"c","a","t","c","h">>,
      <<"f","i","n","a","l","l","y">>,
      <<"t","h","r","o","w">>,
      <<"d","e","b","u","g","g","e","r">>,
      <<"w","i","t","h">>,
      <<"y","i","e","l","d">>,
      <<"a","w","a","i","t">>,
      <<"a","s","y","n","c">>,
      <<"s","t","a","t","i","c">>,
      <<"p","u","b","l","i","c">>,
      <<"p","r","i","v","a","t","e">>,
      <<"p","r","o","t","e","c","t","e","d">>,
      <<"r","e","a","d","o","n","l","y">>,
      <<"a","b","s","t","r","a","c","t">>,
      <<"e","n","u","m">>,
      <<"t","y","p","e">>,
      <<"n","a","m","e","s","p","a","c","e">>,
      <<"m","o","d","u","l","e">>,
      <<"r","e","q","u","i","r","e">>,
      <<"t","r","u","e">>,
      <<"f","a","l","s","e">>,
      <<"n","u","l","l">>,
      <<"u","n","d","e","f","i","n","e","d">>,
      <<"N","a","N">>,
      <<"I","n","f","i","n","i","t","y">> }

LowerOf(c) ==
    CASE c = "A" -> "a"
      [] c = "B" -> "b"
      [] c = "C" -> "c"
      [] c = "D" -> "d"
      [] c = "E" -> "e"
      [] c = "F" -> "f"
      [] c = "G" -> "g"
      [] c = "H" -> "h"
      [] c = "I" -> "i"
      [] c = "J" -> "j"
      [] c = "K" -> "k"
      [] c = "L" -> "l"
      [] c = "M" -> "m"
      [] c = "N" -> "n"
      [] c = "O" -> "o"
      [] c = "P" -> "p"
      [] c = "Q" -> "q"
      [] c = "R" -> "r"
      [] c = "S" -> "s"
      [] c = "T" -> "t"
      [] c = "U" -> "u"
      [] c = "V" -> "v"
      [] c = "W" -> "w"
      [] c = "X" -> "x"
      [] c = "Y" -> "y"
      [] c = "Z" -> "z"
      [] OTHER -> c

\* str.lower
Lower(s) == [k \in 1..Len(s) |-> LowerOf(s[k])]

KwFunction == <<"f","u","n","c","t","i","o","n">>
KwConst == <<"c","o","n","s","t">>
KwAsync == <<"a","s","y","n","c">>

\* r'(?:export\s+)?(?:async\s+)?function\s+(\w+)': 'function\s+(\w+)' matched
\* at index i of line, as <<index of group 1, index after it>> or <<0, 0>>.
\* The optional prefixes hold no 'function', so with or without them group 1
\* is the one of the leftmost 'function\s+\w'.
FunctionDeclGroupAt(line, i) ==
    LET w == RunEnd(line, i + Len(KwFunction), SpaceChars)
        e == RunEnd(line, w, WordChars)
    IN IF MatchAt(line, i, KwFunction) /\ w > i + Len(KwFunction) /\ e > w
       THEN <<w, e>>
       ELSE <<0, 0>>

\* '(?:async\s+)?' from index a of line, after 'const\s+(\w+)\s*=\s*' with
\* group 1 at w..e - 1
ConstAsyncAt(line, w, e, a, b) ==
    IF MatchAt(line, a, KwAsync) /\ b > a + Len(KwAsync)
    THEN <<w, e, b>>
    ELSE <<w, e, a>>

\* '\s*=\s*(?:async\s+)?' from index q of line, the first index after group 1
\* and the blanks behind it
ConstAssignAt(line, w, e, q, a) ==
    IF e > w /\ CharAt(line, q) = "="
    THEN ConstAsyncAt(line, w, e, a,
                      RunEnd(line, a + Len(KwAsync), SpaceChars))
    ELSE <<0, 0, 0>>

\* '(\w+)\s*=\s*(?:async\s+)?' from index w of line, group 1 ending before e
ConstNameAt(line, w, e, q) ==
    ConstAssignAt(line, w, e, q, RunEnd(line, q + 1, SpaceChars))

\* '\s+(\w+)\s*=\s*(?:async\s+)?' behind the 'const' at index i of line, the
\* blanks ending before w
ConstBlanksAt(line, i, w, e) ==
    IF w > i + Len(KwConst)
    THEN ConstNameAt(line, w, e, RunEnd(line, e, SpaceChars))
    ELSE <<0, 0, 0>>

\* 'const\s+(\w+)\s*=\s*(?:async\s+)?' matched at index i of line, as
\* <<index of group 1, index after it, index after the whole prefix>> or
\* <<0, 0, 0>>
ConstHeadFrom(line, i, w) ==
    IF MatchAt(line, i, KwConst)
    THEN ConstBlanksAt(line, i, w, RunEnd(line, w, WordChars))
    ELSE <<0, 0, 0>>

ConstHeadAt(line, i) ==
    ConstHeadFrom(line, i, RunEnd(line, i + Len(KwConst), SpaceChars))

\* '\([^)]*\)\s*=>' behind the prefix h of a 'const' declaration
ConstArrowGroup(line, h) ==
    LET closing == {c \in (h[3] + 1)..Len(line) : line[c] = ")"}
    IN IF /\ h # <<0, 0, 0>>
          /\ CharAt(line, h[3]) = "("
          /\ \E c \in closing :
                 /\ \A y \in closing : c <= y
                 /\ MatchAt(line, RunEnd(line, c + 1, SpaceChars),
                            <<"=", ">">>)
       THEN <<h[1], h[2]>>
       ELSE <<0, 0>>

\* r'(?:export\s+)?const\s+(\w+)\s*=\s*(?:async\s+)?\([^)]*\)\s*=>' from the
\* 'const' at index i
ConstArrowGroupAt(line, i) == ConstArrowGroup(line, ConstHeadAt(line, i))

\* 'function\b' behind the prefix h of a 'const' declaration
ConstFunctionGroup(line, h) ==
    IF /\ h # <<0, 0, 0>>
       /\ MatchAt(line, h[3], KwFunction)
       /\ CharAt(line, h[3] + Len(KwFunction)) \notin WordChars
    THEN <<h[1], h[2]>>
    ELSE <<0, 0>>

\* r'(?:export\s+)?const\s+(\w+)\s*=\s*(?:async\s+)?function\b' from the
\* 'const' at index i
ConstFunctionGroupAt(line, i) ==
    ConstFunctionGroup(line, ConstHeadAt(line, i))

\* pattern n of function_patterns matched at index i of line
FunctionGroupAt(line, i, n) ==
    CASE n = 1 -> FunctionDeclGroupAt(line, i)
      [] n = 2 -> ConstArrowGroupAt(line, i)
      [] n = 3 -> ConstFunctionGroupAt(line, i)

\* the leftmost of the matches groups[i] found at the indices i of a line, or
\* <<0, 0>>
LeftmostGroup(groups) ==
    IF \E j \in 1..Len(groups) : groups[j] # <<0, 0>>
    THEN groups[CHOOSE j \in 1..Len(groups) :
                    /\ groups[j] # <<0, 0>>
                    /\ \A h \in 1..(j - 1) : groups[h] = <<0, 0>>]
    ELSE <<0, 0>>

\* match = re.search(pattern, line), as the group 1 of the match
FunctionPatternSearch(line, n) ==
    LeftmostGroup([i \in 1..Len(line) |-> FunctionGroupAt(line, i, n)])

\* if match
FunctionPatternMatches(match) == match # <<0, 0>>

\* match.group(1)
FunctionPatternName(line, match) == SubSeq(line, match[1], match[2] - 1)

\* if func_name and func_name.lower() not in self.js_keywords
KeepsFunctionName(func_name) ==
    func_name # <<>> /\ Lower(func_name) \notin js_keywords

\* the body of the loop over function_patterns for line k and one match
RecordFunction(lines, k, match, functions) ==
    IF /\ FunctionPatternMatches(match)
       /\ KeepsFunctionName(FunctionPatternName(lines[k], match))
    THEN DictSet(functions, FunctionPatternName(lines[k], match),
                 k, find_function_end(lines, k))
    ELSE functions

\* the inner loop over function_patterns, from pattern n on, for line k
RECURSIVE FunctionPatternsFrom(_, _, _, _)
FunctionPatternsFrom(lines, k, n, functions) ==
    IF n > 3 THEN functions
    ELSE FunctionPatternsFrom(lines, k, n + 1,
             RecordFunction(lines, k, FunctionPatternSearch(lines[k], n),
                            functions))

\* the loop over enumerate(lines, 1), from line k on
RECURSIVE ExtractFunctionsFrom(_, _, _)
ExtractFunctionsFrom(lines, k, functions) ==
    IF k > Len(lines) THEN functions
    ELSE ExtractFunctionsFrom(lines, k + 1,
                              FunctionPatternsFrom(lines, k, 1, functions))

extract_functions_with_lines(content) ==
    ExtractFunctionsFrom(Split(content), 1, <<>>)

(***************************************************************************)
(* TestImpact (test_analyzer.py).  None is no str; lines_changed is the set *)
(* of the lines of the list, {} when it is None.                            *)
(***************************************************************************)
None == <<"None">>

ADDED == "added"
MODIFIED == "modified"
REMOVED == "removed"

TestImpact(test_name, file_path, change_type, lines_changed, impacted_by_helper) ==
    [test_name |-> test_name,
     file_path |-> file_path,
     change_type |-> change_type,
     lines_changed |-> lines_changed,
     impacted_by_helper |-> impacted_by_helper]

(***************************************************************************)
(* TestAnalyzer.analyze_file_changes (test_analyzer.py)                     *)
(***************************************************************************)
InSpanMut(line, start, end) == start < line /\ line <= end

\* current_start <= line <= current_end
InSpan(line, start, end) == start <= line /\ line <= end

\* one TestImpact without changed lines for each name of the list
DirectImpacts(names, file_path, change_type) ==
    [k \in 1..Len(names) |->
        TestImpact(names[k], file_path, change_type, {}, None)]

\* the loop over common_tests, in the order names
RECURSIVE ModifiedImpacts(_, _, _, _)
ModifiedImpacts(names, current_tests, changed, file_path) ==
    IF Len(names) = 0 THEN <<>>
    ELSE
    LET span == DictGet(current_tests, Head(names))
        test_changed_lines ==
            {line \in changed : InSpan(line, span.start, span.end)}
    IN (IF test_changed_lines # {}
        THEN <<TestImpact(Head(names), file_path, MODIFIED,
                          test_changed_lines, None)>>
        ELSE <<>>)
       \o ModifiedImpacts(Tail(names), current_tests, changed, file_path)

\* the else branch, the three sets iterated in the orders given
ModifiedBranch(current_tests, previous_tests, changed, file_path, added, removed, common) ==
    DirectImpacts(added, file_path, ADDED)
    \o DirectImpacts(removed, file_path, REMOVED)
    \o ModifiedImpacts(common, current_tests, changed, file_path)

\* the lists analyze_file_changes can return: one for each order in which
\* the three name sets of the else branch are iterated
analyze_file_changes(r, commit_sha, file_path, status) ==
    LET current_content == get_file_content(r, commit_sha, file_path)
        parent_commit == get_parent_commit(r, commit_sha)
        previous_content ==
            IF parent_commit # <<>>
            THEN get_file_content(r, parent_commit, file_path)
            ELSE <<>>
        current_tests == extract_tests_with_lines(current_content)
        previous_tests == extract_tests_with_lines(previous_content)
        changed == get_changed_lines(r, commit_sha, file_path)
        cur == DictKeys(current_tests)
        prev == DictKeys(previous_tests)
    IN IF status = <<"A">>
       THEN {DirectImpacts(DictKeyList(current_tests), file_path, ADDED)}
       ELSE IF status = <<"D">>
       THEN {DirectImpacts(DictKeyList(previous_tests), file_path, REMOVED)}
       ELSE {ModifiedBranch(current_tests, previous_tests, changed, file_path,
                            added, removed, common) :
                added \in Orders(cur \ prev),
                removed \in Orders(prev \ cur),
                common \in Orders(cur \cap prev)}

(***************************************************************************)
(* HelperAnalyzer.find_changed_functions (analyze_direct_changes.py)        *)
(***************************************************************************)

\* the first loop: the functions of the current version, in dict order, that
\* hold a changed line
RECURSIVE FunctionsWithChangedLines(_, _)
FunctionsWithChangedLines(current_functions, changed) ==
    IF Len(current_functions) = 0 THEN <<>>
    ELSE
    LET f == Head(current_functions)
        func_changed_lines ==
            {line \in changed : f.start <= line /\ line <= f.end}
    IN (IF func_changed_lines # {} THEN <<f.name>> ELSE <<>>)
       \o FunctionsWithChangedLines(Tail(current_functions), changed)

\* for func_name in names: if func_name not in changed_functions: append
RECURSIVE AppendMissing(_, _)
AppendMissing(changed_functions, names) ==
    IF Len(names) = 0 THEN changed_functions
    ELSE AppendMissing(
             IF \E k \in 1..Len(changed_functions) :
                    changed_functions[k] = Head(names)
             THEN changed_functions
             ELSE Append(changed_functions, Head(names)),
             Tail(names))

\* if not current_content or not previous_content
MissingVersion(current_content, previous_content) ==
    current_content = <<>> \/ previous_content = <<>>

\* the lists of names built from both dicts and the changed lines: one for
\* each order in which the added and the removed names are iterated
ChangedFunctionNames(current_functions, previous_functions, changed) ==
    {AppendMissing(
         AppendMissing(
             FunctionsWithChangedLines(current_functions, changed),
             added),
         removed) :
        added \in Orders(DictKeys(current_functions)
                         \ DictKeys(previous_functions)),
        removed \in Orders(DictKeys(previous_functions)
                           \ DictKeys(current_functions))}

\* find_changed_functions from the two contents it has read
ChangedFunctionsOf(current_content, previous_content, changed) ==
    IF MissingVersion(current_content, previous_content)
    THEN {<<>>}
    ELSE ChangedFunctionNames(
             extract_functions_with_lines(current_content),
             extract_functions_with_lines(previous_content),
             changed)

\* previous_content = get_file_content(parent_commit, file_path)
\*     if parent_commit else ""
PreviousContent(r, parent_commit, file_path) ==
    IF parent_commit # <<>>
    THEN get_file_content(r, parent_commit, file_path)
    ELSE <<>>

\* the lists find_changed_functions can return
find_changed_functions(r, commit_sha, file_path) ==
    ChangedFunctionsOf(
        get_file_content(r, commit_sha, file_path),
        PreviousContent(r, get_parent_commit(r, commit_sha), file_path),
        get_changed_lines(r, commit_sha, file_path))

(***************************************************************************)
(* HelperAnalyzer.find_tests_using_functions (analyze_direct_changes.py)    *)
(***************************************************************************)

\* \b at index i of s: between s[i - 1] and s[i]
WordBoundaryAt(s, i) ==
    (CharAt(s, i - 1) \in WordChars) # (CharAt(s, i) \in WordChars)

MentionsFunctionMut(test_content, func) ==
    \E i \in 1..(Len(test_content) + 1) :
        /\ WordBoundaryAt(test_content, i)
        /\ MatchAt(test_content, i, func \o <<"(">>)

\* re.search(fr'\b{re.escape(func)}\b', test_content)
MentionsFunction(test_content, func) ==
    \E i \in 1..(Len(test_content) + 1) :
        /\ WordBoundaryAt(test_content, i)
        /\ MatchAt(test_content, i, func)
        /\ WordBoundaryAt(test_content, i + Len(func))

CallSuffixMut == {"("}

\* (?:\(|\.)
CallSuffix == {"(", "."}

\* re.search(fr'\b{re.escape(func)}\s*(?:\(|\.)', test_block)
UsesFunction(test_block, func) ==
    \E i \in 1..(Len(test_block) + 1) :
        /\ WordBoundaryAt(test_block, i)
        /\ MatchAt(test_block, i, func)
        /\ CharAt(test_block,
                  RunEnd(test_block, i + Len(func), SpaceChars)) \in CallSuffix

\* test_content.replace('\r\n', '\n').replace('\r', '\n')
RECURSIVE NormalizeNewlines(_)
NormalizeNewlines(s) ==
    IF Len(s) = 0 THEN s
    ELSE IF s[1] = "\r"
    THEN <<NL>> \o NormalizeNewlines(
            IF CharAt(s, 2) = NL THEN SubSeq(s, 3, Len(s)) ELSE Tail(s))
    ELSE <<s[1]>> \o NormalizeNewlines(Tail(s))

HelperNameMut(helper_file, func) == None

\* f"{helper_file}:{func}"
HelperName(helper_file, func) == helper_file \o <<":">> \o func

\* test_name=test_name.strip()
ReportedTestName(test_name) == Strip(test_name)

\* the loop over functions for one test
RECURSIVE FunctionImpacts(_, _, _, _, _)
FunctionImpacts(functions, test_name, test_block, test_file, helper_file) ==
    IF Len(functions) = 0 THEN <<>>
    ELSE (IF UsesFunction(test_block, Head(functions))
          THEN <<TestImpact(ReportedTestName(test_name), test_file, MODIFIED,
                            {}, HelperName(helper_file, Head(functions)))>>
          ELSE <<>>)
         \o FunctionImpacts(Tail(functions), test_name, test_block,
                            test_file, helper_file)

\* the loop over tests.items() of one file
RECURSIVE TestBlockImpacts(_, _, _, _, _)
TestBlockImpacts(tests, lines, functions, test_file, helper_file) ==
    IF Len(tests) = 0 THEN <<>>
    ELSE
    LET t == Head(tests)
        test_block == Join(SubSeq(lines, t.start, t.end))
    IN FunctionImpacts(functions, t.name, test_block, test_file, helper_file)
       \o TestBlockImpacts(Tail(tests), lines, functions, test_file,
                           helper_file)

\* file_uses_function after the first loop over functions
FileUsesFunction(test_content, functions) ==
    \E k \in 1..Len(functions) : MentionsFunction(test_content, functions[k])

\* one iteration of the loop over test_files
TestFileImpacts(r, test_file, functions, helper_file) ==
    LET raw == get_file_content(r, HeadRev, test_file)
        test_content == NormalizeNewlines(raw)
        tests == extract_tests_with_lines(test_content)
    IN IF raw = <<>> THEN <<>>
       ELSE IF ~FileUsesFunction(test_content, functions) THEN <<>>
       ELSE IF Len(tests) = 0 THEN <<>>
       ELSE TestBlockImpacts(tests, Split(test_content), functions,
                             test_file, helper_file)

\* the loop over test_files
RECURSIVE TestFilesImpacts(_, _, _, _)
TestFilesImpacts(r, files, functions, helper_file) ==
    IF Len(files) = 0 THEN <<>>
    ELSE TestFileImpacts(r, Head(files), functions, helper_file)
         \o TestFilesImpacts(r, Tail(files), functions, helper_file)

find_tests_using_functions(r, helper_file, functions) ==
    IF Len(functions) = 0 THEN <<>>
    ELSE TestFilesImpacts(r, get_all_test_files(r), functions, helper_file)

(***************************************************************************)
(* HelperAnalyzer.analyze_helper_file_changes (analyze_direct_changes.py)   *)
(***************************************************************************)

\* list(functions_dict.keys()) if the content is not empty, else []
FunctionNamesOf(content) ==
    IF content # <<>>
    THEN DictKeyList(extract_functions_with_lines(content))
    ELSE <<>>

\* status 'A': the functions of the file at the analysed commit
AddedFileFunctions(r, commit_sha, file_path) ==
    FunctionNamesOf(get_file_content(r, commit_sha, file_path))

DeletedFileFunctionsMut(r, commit_sha, file_path) ==
    FunctionNamesOf(get_file_content(r, commit_sha, file_path))

\* status 'D': the functions of the file at the parent of the analysed commit
DeletedFileFunctions(r, commit_sha, file_path) ==
    FunctionNamesOf(
        get_file_content(r, get_parent_commit(r, commit_sha), file_path))

\* the lists of function names the three branches can build
ChangedFunctionLists(r, commit_sha, file_path, status) ==
    IF status = <<"A">>
    THEN {AddedFileFunctions(r, commit_sha, file_path)}
    ELSE IF status = <<"D">>
    THEN {DeletedFileFunctions(r, commit_sha, file_path)}
    ELSE find_changed_functions(r, commit_sha, file_path)

\* if functions: impacts.extend(find_tests_using_functions(...))
HelperImpactsFor(r, file_path, functions) ==
    IF Len(functions) # 0
    THEN find_tests_using_functions(r, file_path, functions)
    ELSE <<>>

(***************************************************************************)
(* TestImpactAnalyzer.print_results: the removal of duplicates              *)
(* (test_impact_analyzer.py)                                                *)
(***************************************************************************)

\* test_key = f"{impact.file_path}:{impact.test_name}"
TestKey(impact) == impact.file_path \o <<":">> \o impact.test_name

\* not impact.impacted_by_helper
IsDirect(impact) ==
    impact.impacted_by_helper = None \/ impact.impacted_by_helper = <<>>

\* one pass over impacts from item k on: the direct impacts when direct is
\* TRUE, the helper impacts otherwise; the result is <<unique_impacts,
\* seen_tests>>
RECURSIVE DedupPass(_, _, _, _, _)
DedupPass(impacts, k, direct, unique, seen) ==
    IF k > Len(impacts) THEN <<unique, seen>>
    ELSE IF IsDirect(impacts[k]) = direct /\ TestKey(impacts[k]) \notin seen
    THEN DedupPass(impacts, k + 1, direct, Append(unique, impacts[k]),
                   seen \cup {TestKey(impacts[k])})
    ELSE DedupPass(impacts, k + 1, direct, unique, seen)

\* unique_impacts after the two passes
UniqueImpacts(impacts) ==
    LET first == DedupPass(impacts, 1, TRUE, <<>>, {})
    IN DedupPass(impacts, 1, FALSE, first[1], first[2])[1]

(***************************************************************************)
(* Repositories.  A file is a list of lines, each ended by a line break.    *)
(* A changed file is its parent version and one edit: at line `at`, `del`   *)
(* lines are taken out and the lines `ins` are put in.  The diff is the     *)
(* one-hunk text git prints for that edit with --unified=0 (less the        *)
(* section heading after the closing @@, which get_changed_lines skips).    *)
(***************************************************************************)
TestPath == <<"a",".","s","p","e","c",".","t","s">>
HelperPath == <<"h",".","t","s">>

Content(lines) == IF lines = <<>> THEN <<>> ELSE Join(lines) \o <<NL>>

DigitChar(n) == CHOOSE c \in Digits : DigitVal(c) = n

RECURSIVE FormatInt(_)
FormatInt(n) ==
    IF n < 10 THEN <<DigitChar(n)>>
    ELSE FormatInt(n \div 10) \o <<DigitChar(n % 10)>>

\* a range of a hunk header: the count is left out when it is 1, and an empty
\* range names the line before it
HunkRange(start, count) ==
    IF count = 1 THEN FormatInt(start)
    ELSE FormatInt(IF count = 0 THEN start - 1 ELSE start)
         \o <<",">> \o FormatInt(count)

HunkHeader(at, del, ins) ==
    <<"@","@"," ","-">> \o HunkRange(at, del)
    \o <<" ","+">> \o HunkRange(at, ins) \o <<" ","@","@">>

Prefixed(c, lines) == [k \in 1..Len(lines) |-> <<c>> \o lines[k]]

\* the text of git diff --unified=0 for one file with one hunk; status is
\* "A", "M" or "D"
DiffText(path, status, at, removed, inserted) ==
    LET head ==
            << <<"d","i","f","f"," ","-","-","g","i","t"," ","a","/">>
               \o path \o <<" ","b","/">> \o path >>
        mode ==
            IF status = "A"
            THEN << <<"n","e","w"," ","f","i","l","e"," ","m","o","d","e"," ","1","0","0","6","4","4">>,
                    <<"i","n","d","e","x"," ","0","0","0","0","0","0","0",".",".","2","2","2","2","2","2","2">> >>
            ELSE IF status = "D"
            THEN << <<"d","e","l","e","t","e","d"," ","f","i","l","e"," ","m","o","d","e"," ","1","0","0","6","4","4">>,
                    <<"i","n","d","e","x"," ","1","1","1","1","1","1","1",".",".","0","0","0","0","0","0","0">> >>
            ELSE << <<"i","n","d","e","x"," ","1","1","1","1","1","1","1",".",".","2","2","2","2","2","2","2"," ","1","0","0","6","4","4">> >>
        old ==
            IF status = "A"
            THEN << <<"-","-","-"," ","/","d","e","v","/","n","u","l","l">> >>
            ELSE << <<"-","-","-"," ","a","/">> \o path >>
        new ==
            IF status = "D"
            THEN << <<"+","+","+"," ","/","d","e","v","/","n","u","l","l">> >>
            ELSE << <<"+","+","+"," ","b","/">> \o path >>
    IN Content(head \o mode \o old \o new
               \o <<HunkHeader(at, Len(removed), Len(inserted))>>
               \o Prefixed("-", removed) \o Prefixed("+", inserted))

\* the edits of prev that git reports as the one hunk <<at, del, ins>>: the
\* lines taken out and put in share no line, and the hunk cannot slide down
Edits(prev, InsertPool) ==
    {e \in [at : 1..(Len(prev) + 1), del : 0..MaxDeleted,
            ins : {<<>>} \cup {<<l>> : l \in InsertPool}] :
        /\ e.at + e.del - 1 <= Len(prev)
        /\ e.del + Len(e.ins) > 0
        /\ \A k \in e.at..(e.at + e.del - 1) :
               \A j \in 1..Len(e.ins) : prev[k] # e.ins[j]
        /\ (e.at + e.del <= Len(prev) /\ e.del = 0)
               => prev[e.at] # e.ins[1]
        /\ (e.at + e.del <= Len(prev) /\ e.ins = <<>>)
               => prev[e.at + e.del] # prev[e.at]}

Edited(prev, e) ==
    SubSeq(prev, 1, e.at - 1) \o e.ins
    \o SubSeq(prev, e.at + e.del, Len(prev))

\* what one file is in the analysed commit: its status ("-" when the commit
\* does not touch it), whether it exists in the parent and in the commit, its
\* two contents and its diff
Untouched(lines) ==
    [status |-> "-", in_parent |-> TRUE, in_commit |-> TRUE,
     previous |-> Content(lines), current |-> Content(lines), diff |-> <<>>]

AddedFile(path, lines) ==
    [status |-> "A", in_parent |-> FALSE, in_commit |-> TRUE,
     previous |-> <<>>, current |-> Content(lines),
     diff |-> DiffText(path, "A", 1, <<>>, lines)]

DeletedFile(path, lines) ==
    [status |-> "D", in_parent |-> TRUE, in_commit |-> FALSE,
     previous |-> Content(lines), current |-> <<>>,
     diff |-> DiffText(path, "D", 1, lines, <<>>)]

ModifiedFile(path, prev, e) ==
    [status |-> "M", in_parent |-> TRUE, in_commit |-> TRUE,
     previous |-> Content(prev), current |-> Content(Edited(prev, e)),
     diff |-> DiffText(path, "M", e.at,
                       SubSeq(prev, e.at, e.at + e.del - 1), e.ins)]

FileChanges(path, Versions, InsertPool) ==
    {Untouched(v) : v \in Versions \ {<<>>}}
    \cup {AddedFile(path, v) : v \in Versions \ {<<>>}}
    \cup {DeletedFile(path, v) : v \in Versions \ {<<>>}}
    \cup UNION {{ModifiedFile(path, v, e) : e \in Edits(v, InsertPool)} :
                   v \in Versions}

\* the lines and versions of the test file
TestOpenA == <<"i","t","(","'","a","'",",","(",")","=",">","{">>
TestOpenSpA == <<"i","t","(","'"," ","a","'",",","(",")","=",">","{">>
TestOpenB == <<"i","t","(","'","b","'",",","(",")","=",">","{">>
CallF == <<"f","(",")">>
CallG == <<"g",".","x","(",")">>
Assign == <<"x","=","1">>
TestClose == <<"}",")">>

TestVersions ==
    { <<>>,
      <<TestOpenA, CallF, TestClose>>,
      <<TestOpenSpA, CallF, TestClose>>,
      <<TestOpenA, Assign, TestClose, TestOpenB, CallG, TestClose>> }

TestInsertPool == {CallF, Assign, TestOpenB}

\* the lines and versions of the helper file
FunctionF == <<"f","u","n","c","t","i","o","n"," ","f","(",")","{">>
ConstG == <<"c","o","n","s","t"," ","g","=","(",")","=",">","{">>
Body1 == <<"r","=","1">>
Body2 == <<"r","=","2">>
BlockClose == <<"}">>

HelperVersions ==
    { <<>>,
      <<FunctionF, Body1, BlockClose>>,
      <<FunctionF, BlockClose, ConstG, Body1, BlockClose>> }

HelperInsertPool == {Body2, FunctionF, ConstG}

\* the analysed repository: the test file as t, the helper file as h, and HEAD
\* at the analysed commit or at its parent, in a clean work tree (the index,
\* which git show reads for an empty revision, holds what HEAD holds)
Repository(t, h, head) ==
    LET files == {<<TestPath, t>>, <<HelperPath, h>>}
        touched(f) == f[2].status # "-"
        entry(f) == <<f[2].status>> \o <<"\t">> \o f[1] \o <<NL>>
        at_head(f) ==
            IF head = CommitSha THEN f[2].in_commit ELSE f[2].in_parent
        shown ==
            {<<CommitSha, f[1]>> : f \in {g \in files : g[2].in_commit}}
            \cup {<<ParentSha, f[1]>> : f \in {g \in files : g[2].in_parent}}
            \cup {<<HeadRev, f[1]>> : f \in {g \in files : at_head(g)}}
            \cup {<<<<>>, f[1]>> : f \in {g \in files : at_head(g)}}
        file(path) == IF path = TestPath THEN t ELSE h
    IN [name_status |->
            (IF touched(<<TestPath, t>>) THEN entry(<<TestPath, t>>) ELSE <<>>)
            \o (IF touched(<<HelperPath, h>>) THEN entry(<<HelperPath, h>>)
                ELSE <<>>),
        rev_parse |-> ParentSha \o <<NL>>,
        show |->
            [k \in shown |->
                IF k[1] = CommitSha THEN file(k[2]).current
                ELSE IF k[1] = ParentSha THEN file(k[2]).previous
                ELSE IF head = CommitSha THEN file(k[2]).current
                ELSE file(k[2]).previous],
        diff |-> [path \in {TestPath, HelperPath} |-> file(path).diff],
        diff_head |->
            [path \in {TestPath, HelperPath} |->
                IF head = CommitSha THEN <<>> ELSE file(path).diff],
        ls_files |->
            IF at_head(<<TestPath, t>>) THEN TestPath \o <<NL>> ELSE <<>>,
        failed |-> {}]

Repositories ==
    {Repository(t, h, head) :
        t \in FileChanges(TestPath, TestVersions, TestInsertPool),
        h \in FileChanges(HelperPath, HelperVersions, HelperInsertPool),
        head \in {CommitSha, ParentSha}}

(***************************************************************************)
(* TestImpactAnalyzer.analyze_commit and print_results                      *)
(* (test_impact_analyzer.py), run by main (main.py)                         *)
(***************************************************************************)
SpecTsSuffix == <<".","s","p","e","c",".","t","s">>
TsSuffix == <<".","t","s">>
JsSuffix == <<".","j","s">>

\* file_path.endswith('.spec.ts')
IsTestFile(file_path) == EndsWith(file_path, SpecTsSuffix)

\* elif file_path.endswith(('.ts', '.js'))
IsHelperFile(file_path) ==
    /\ ~IsTestFile(file_path)
    /\ (EndsWith(file_path, TsSuffix) \/ EndsWith(file_path, JsSuffix))

Items(xs) == {xs[k] : k \in 1..Len(xs)}

Init ==
    /\ pc = "start"
    /\ repo \in Repositories
    /\ test_files = <<>>
    /\ helper_files = <<>>
    /\ all_impacts = <<>>
    /\ origin = <<>>
    /\ calls = <<>>
    /\ unique_impacts = <<>>
    /\ DiffIdle
    /\ SpanIdle
    /\ ExtractIdle

\* analyze_commit up to its loops: the changed files, split by kind
GetCommitFiles ==
    /\ pc = "start"
    /\ LET changed_files == get_commit_files(repo, CommitSha)
       IN IF Len(changed_files) = 0
          THEN /\ pc' = "returned"
               /\ UNCHANGED <<test_files, helper_files>>
          ELSE /\ pc' = "analyze"
               /\ test_files' =
                      Filter(changed_files,
                             {f \in Items(changed_files) :
                                 IsTestFile(f.file_path)})
               /\ helper_files' =
                      Filter(changed_files,
                             {f \in Items(changed_files) :
                                 IsHelperFile(f.file_path)})
    /\ UNCHANGED <<repo, all_impacts, origin, calls, unique_impacts,
                   diffVars, spanVars, extractVars>>

\* one iteration of the loop over test_files
AnalyzeTestFile ==
    /\ pc = "analyze"
    /\ test_files # <<>>
    /\ \E impacts \in analyze_file_changes(repo, CommitSha,
                                           Head(test_files).file_path,
                                           Head(test_files).status) :
          /\ all_impacts' = all_impacts \o impacts
          /\ origin' = origin \o [k \in 1..Len(impacts) |-> "direct"]
    /\ test_files' = Tail(test_files)
    /\ UNCHANGED <<pc, repo, helper_files, calls, unique_impacts,
                   diffVars, spanVars, extractVars>>

\* one iteration of the loop over helper_files: analyze_helper_file_changes
AnalyzeHelperFile ==
    /\ pc = "analyze"
    /\ test_files = <<>>
    /\ helper_files # <<>>
    /\ \E functions \in ChangedFunctionLists(repo, CommitSha,
                                             Head(helper_files).file_path,
                                             Head(helper_files).status) :
          LET impacts == HelperImpactsFor(repo, Head(helper_files).file_path,
                                          functions)
          IN /\ all_impacts' = all_impacts \o impacts
             /\ origin' = origin \o [k \in 1..Len(impacts) |-> "helper"]
             /\ calls' = Append(calls,
                                [file_path |-> Head(helper_files).file_path,
                                 status |-> Head(helper_files).status,
                                 functions |-> functions,
                                 correlated |-> Len(functions) # 0])
    /\ helper_files' = Tail(helper_files)
    /\ UNCHANGED <<pc, repo, test_files, unique_impacts, diffVars, spanVars,
                   extractVars>>

\* return all_impacts
ReturnImpacts ==
    /\ pc = "analyze"
    /\ test_files = <<>>
    /\ helper_files = <<>>
    /\ pc' = "returned"
    /\ UNCHANGED <<runVars, diffVars, spanVars, extractVars>>

\* main hands the list to print_results, which returns at once when the
\* list is empty
PrintResults ==
    /\ pc = "returned"
    /\ unique_impacts' =
           IF Len(all_impacts) = 0 THEN unique_impacts
           ELSE UniqueImpacts(all_impacts)
    /\ pc' = "done"
    /\ UNCHANGED <<repo, test_files, helper_files, all_impacts, origin, calls,
                   diffVars, spanVars, extractVars>>

Next ==
    \/ GetCommitFiles
    \/ AnalyzeTestFile
    \/ AnalyzeHelperFile
    \/ ReturnImpacts
    \/ PrintResults

Spec == Init /\ [][Next]_vars

(***************************************************************************)
(* Claims about analyze_commit                                              *)
(***************************************************************************)

\* analyze_commit has returned its list
Returned == pc \in {"returned", "done"}

\* impacted_by_helper holds a name
HelperIsSet(impact) == impact.impacted_by_helper \notin {None, <<>>}

\* C10: in the list analyze_commit returns, impacted_by_helper is set on the
\* records the usage correlator produced and on no record the classification
\* of a test file produced, and every record with impacted_by_helper set has
\* change_type MODIFIED.
C10_HelperAttribution ==
    Returned =>
        \A k \in 1..Len(all_impacts) :
            /\ HelperIsSet(all_impacts[k]) <=> (origin[k] = "helper")
            /\ HelperIsSet(all_impacts[k])
                   => all_impacts[k].change_type = MODIFIED

\* a returned list with records of both origins
C10_Witness ==
    /\ Returned
    /\ \E k \in 1..Len(all_impacts) : origin[k] = "direct"
    /\ \E k \in 1..Len(all_impacts) : origin[k] = "helper"

\* the names of the functions recovered from a file at a revision
FunctionsAt(rev, file_path) ==
    DictKeys(extract_functions_with_lines(
                 get_file_content(repo, rev, file_path)))

\* C6: for a helper file with status A the functions treated as changed are
\* all the functions recovered from its content at the analysed commit, for
\* status D all those recovered from its content at the parent, whatever the
\* changed lines are; the correlator is invoked only when there is a name.
C6_WholeFileFunctions ==
    \A k \in 1..Len(calls) :
        /\ calls[k].status = <<"A">>
               => Items(calls[k].functions)
                      = FunctionsAt(CommitSha, calls[k].file_path)
        /\ calls[k].status = <<"D">>
               => Items(calls[k].functions)
                      = FunctionsAt(ParentSha, calls[k].file_path)
        /\ calls[k].status \in {<<"A">>, <<"D">>}
               => (calls[k].correlated <=> calls[k].functions # <<>>)

\* a deleted helper file whose functions went to the correlator
C6_Witness ==
    \E k \in 1..Len(calls) :
        /\ calls[k].status = <<"D">>
        /\ calls[k].functions # <<>>
        /\ calls[k].correlated

\* the names claimed to be changed, from the two dicts and the changed lines
ClaimedChangedFunctions(current_functions, previous_functions, changed) ==
    (DictKeys(current_functions) \ DictKeys(previous_functions))
    \cup (DictKeys(previous_functions) \ DictKeys(current_functions))
    \cup {name \in DictKeys(current_functions)
                       \cap DictKeys(previous_functions) :
             \E line \in changed :
                 /\ DictGet(current_functions, name).start <= line
                 /\ line <= DictGet(current_functions, name).end}

ClaimedChangedFunctionsAt(file_path) ==
    ClaimedChangedFunctions(
        extract_functions_with_lines(
            get_file_content(repo, CommitSha, file_path)),
        extract_functions_with_lines(
            get_file_content(repo, ParentSha, file_path)),
        get_changed_lines(repo, CommitSha, file_path))

\* C5: for a helper file with status M the names passed on are the names
\* only in the current version, the names only in the previous version and
\* the names in both whose current span holds a changed line, also when one
\* of the two versions has no text.
C5_ChangedFunctionSet ==
    \A k \in 1..Len(calls) :
        calls[k].status = <<"M">>
            => Items(calls[k].functions)
                   = ClaimedChangedFunctionsAt(calls[k].file_path)

\* the statuses the analysed commit gives a file
StatusesOf(file_path) ==
    {f.status : f \in {g \in Items(get_commit_files(repo, CommitSha)) :
                          g.file_path = file_path}}

\* the positions of all_impacts filled from the given origin
From(tag) == {k \in 1..Len(all_impacts) : origin[k] = tag}

\* what a TestImpact says of which test
Kind(impact) == <<impact.test_name, impact.file_path, impact.change_type>>

\* the impacts claimed for a test file, as <<name, path, change_type>>
ClaimedDirect(status, current_tests, previous_tests, changed, file_path) ==
    IF status = <<"A">>
    THEN {<<name, file_path, ADDED>> : name \in DictKeys(current_tests)}
    ELSE IF status = <<"D">>
    THEN {<<name, file_path, REMOVED>> : name \in DictKeys(previous_tests)}
    ELSE {<<name, file_path, ADDED>> :
             name \in DictKeys(current_tests) \ DictKeys(previous_tests)}
         \cup {<<name, file_path, REMOVED>> :
                  name \in DictKeys(previous_tests) \ DictKeys(current_tests)}
         \cup {<<name, file_path, MODIFIED>> :
                  name \in {n \in DictKeys(current_tests)
                                     \cap DictKeys(previous_tests) :
                               \E line \in changed :
                                   /\ DictGet(current_tests, n).start <= line
                                   /\ line <= DictGet(current_tests, n).end}}

ClaimedDirectAt(status, file_path) ==
    ClaimedDirect(
        status,
        extract_tests_with_lines(get_file_content(repo, CommitSha, file_path)),
        extract_tests_with_lines(get_file_content(repo, ParentSha, file_path)),
        get_changed_lines(repo, CommitSha, file_path),
        file_path)

\* the loop over test_files has ended
TestFilesAnalyzed == pc # "start" /\ test_files = <<>>

\* C3: the impacts of a test file follow its status: for A one ADDED for each
\* test of the current version, for D one REMOVED for each test of the
\* previous version, for M one ADDED for each name only in the current
\* version, one REMOVED for each name only in the previous version and, for a
\* name in both, one MODIFIED if and only if a changed line lies in the
\* current span of the test; nothing else is emitted.
C3_StatusPolicy ==
    TestFilesAnalyzed =>
        \A status \in StatusesOf(TestPath) :
            /\ {Kind(all_impacts[k]) : k \in From("direct")}
                   = ClaimedDirectAt(status, TestPath)
            /\ Cardinality(From("direct"))
                   = Cardinality(ClaimedDirectAt(status, TestPath))

\* a modified test file with a test whose span holds a changed line and a
\* test in both versions that got no impact
C3_Witness ==
    /\ TestFilesAnalyzed
    /\ <<"M">> \in StatusesOf(TestPath)
    /\ \E k \in From("direct") : all_impacts[k].change_type = MODIFIED
    /\ \E name \in DictKeys(extract_tests_with_lines(
                                get_file_content(repo, CommitSha, TestPath)))
                   \cap DictKeys(extract_tests_with_lines(
                                     get_file_content(repo, ParentSha,
                                                      TestPath))) :
           \A k \in From("direct") : all_impacts[k].test_name # name

\* func at an identifier boundary of text, then blanks or none, then one of
\* '(' and '.'
CalledIn(text, func) ==
    \E i \in 1..Len(text), j \in 1..Len(text) :
        /\ i + Len(func) <= j
        /\ SubSeq(text, i, i + Len(func) - 1) = func
        /\ (i = 1 \/ text[i - 1] \notin WordChars)
        /\ \A h \in (i + Len(func))..(j - 1) : text[h] \in SpaceChars
        /\ text[j] \in {"(", "."}

\* the text of the line range of test t of content
BlockText(content, t) == Join(SubSeq(Split(content), t.start, t.end))

\* the tests of content whose reported name is that of t and that call func
CallingTests(tests, content, t, func) ==
    {j \in 1..Len(tests) :
        /\ Strip(tests[j].name) = Strip(t.name)
        /\ CalledIn(BlockText(content, tests[j]), func)}

\* the positions of all_impacts that report test t for func of helper_file
ReportsOf(t, test_file, helper_file, func) ==
    {k \in From("helper") :
        /\ all_impacts[k].test_name = Strip(t.name)
        /\ all_impacts[k].file_path = test_file
        /\ all_impacts[k].change_type = MODIFIED
        /\ all_impacts[k].impacted_by_helper
               = helper_file \o <<":">> \o func}

\* the claim for one test file with the text content and the tests recovered
\* from it
CorrelatedAsClaimed(tests, content, test_file, helper_file, functions) ==
    \A j \in 1..Len(tests) : \A func \in Items(functions) :
        Cardinality(ReportsOf(tests[j], test_file, helper_file, func))
            = Cardinality(CallingTests(tests, content, tests[j], func))

\* the text find_tests_using_functions searches for a test file
SearchedText(test_file) ==
    NormalizeNewlines(get_file_content(repo, HeadRev, test_file))

\* the test file is searched test by test for the functions
PassesPreFilter(test_file, functions) ==
    /\ get_file_content(repo, HeadRev, test_file) # <<>>
    /\ FileUsesFunction(SearchedText(test_file), functions)

\* C4: for a test file that passes the pre-filter, a test of it and a changed
\* function, one TestImpact is emitted if and only if the text of the lines
\* of the test holds the name at an identifier boundary, followed by
\* optional whitespace and '(' or '.'; it has change_type MODIFIED and
\* impacted_by_helper "<helper file>:<function>", one for each function.
C4_UsageCorrelation ==
    Returned =>
        \A k \in 1..Len(calls) :
            \A test_file \in Items(get_all_test_files(repo)) :
                (calls[k].correlated
                 /\ PassesPreFilter(test_file, calls[k].functions))
                    => CorrelatedAsClaimed(
                           extract_tests_with_lines(SearchedText(test_file)),
                           SearchedText(test_file), test_file,
                           calls[k].file_path, calls[k].functions)

\* a searched test file with a test that calls a changed function and a test
\* that does not
CallsAndCallsNot(tests, content, functions) ==
    \E func \in Items(functions) :
        /\ \E j \in 1..Len(tests) : CalledIn(BlockText(content, tests[j]), func)
        /\ \E j \in 1..Len(tests) :
               ~CalledIn(BlockText(content, tests[j]), func)

C4_Witness ==
    /\ Returned
    /\ From("helper") # {}
    /\ \E k \in 1..Len(calls) :
           /\ calls[k].correlated
           /\ PassesPreFilter(TestPath, calls[k].functions)
           /\ CallsAndCallsNot(extract_tests_with_lines(SearchedText(TestPath)),
                               SearchedText(TestPath), calls[k].functions)

\* C2: after analyze_commit and the removal of duplicates, no test with a
\* direct impact from its own file is also reported as impacted by a helper,
\* whatever name the extractor recovered for it.
C2_NoDoubleReport ==
    pc = "done" =>
        \A d \in 1..Len(unique_impacts) : \A h \in 1..Len(unique_impacts) :
            (/\ ~HelperIsSet(unique_impacts[d])
             /\ HelperIsSet(unique_impacts[h])
             /\ unique_impacts[d].file_path = unique_impacts[h].file_path)
                => \A name \in DictKeys(extract_tests_with_lines(
                                   SearchedText(unique_impacts[d].file_path))) :
                       ~(/\ unique_impacts[d].test_name = name
                         /\ unique_impacts[h].test_name
                                = ReportedTestName(name))

\* the names, stripped as the correlator reports them, of the test blocks of
\* file_path at the analysed commit
TestNamesAtCommit(file_path) ==
    {Strip(name) :
        name \in DictKeys(extract_tests_with_lines(
                     get_file_content(repo, CommitSha, file_path)))}

\* C18: every helper impact of the analysis of a commit names a test block of
\* the test file as it is at that commit, the revision that the direct
\* classification reads, wherever HEAD is.
C18_TestsOfCommit ==
    Returned =>
        \A k \in From("helper") :
            all_impacts[k].test_name
                \in TestNamesAtCommit(all_impacts[k].file_path)

\* the correlator without its whole-file check: the per-test matching run on
\* every test file that has content
RECURSIVE UnfilteredImpacts(_, _, _, _)
UnfilteredImpacts(r, files, functions, helper_file) ==
    IF Len(files) = 0 \/ Len(functions) = 0 THEN <<>>
    ELSE TestBlockImpacts(
             extract_tests_with_lines(
                 NormalizeNewlines(get_file_content(r, HeadRev, Head(files)))),
             Split(NormalizeNewlines(get_file_content(r, HeadRev, Head(files)))),
             functions, Head(files), helper_file)
         \o UnfilteredImpacts(r, Tail(files), functions, helper_file)

\* what the correlator without the whole-file check returns for the calls cs
RECURSIVE UnfilteredRuns(_, _)
UnfilteredRuns(r, cs) ==
    IF Len(cs) = 0 THEN <<>>
    ELSE UnfilteredImpacts(r, get_all_test_files(r), Head(cs).functions,
                           Head(cs).file_path)
         \o UnfilteredRuns(r, Tail(cs))

\* the impacts that the loop over the helper files appended
HelperImpacts ==
    SubSeq(all_impacts, Cardinality(From("direct")) + 1, Len(all_impacts))

\* a test file at HEAD has a test and names none of the functions
RejectedFile(functions) ==
    /\ Len(functions) # 0
    /\ \E k \in 1..Len(get_all_test_files(repo)) :
          /\ Len(extract_tests_with_lines(NormalizeNewlines(
                  get_file_content(repo, HeadRev,
                                   get_all_test_files(repo)[k])))) # 0
          /\ ~FileUsesFunction(
                  NormalizeNewlines(
                      get_file_content(repo, HeadRev,
                                       get_all_test_files(repo)[k])),
                  functions)

\* C19: the whole-file check changes nothing: the impacts that the correlator
\* returned are the ones that the per-test matching gives when it is run on
\* every test file, so a file that the check rejects has no test whose lines
\* match the per-test pattern.
C19_PreFilterNeutral ==
    Returned => HelperImpacts = UnfilteredRuns(repo, calls)

\* the correlator has rejected a test file that has tests, one of which
\* calls a function that was not changed
C19_Witness ==
    /\ Returned
    /\ Len(calls) = 1
    /\ RejectedFile(calls[1].functions)
    /\ HelperImpacts = <<>>
    /\ UnfilteredImpacts(repo, get_all_test_files(repo), <<<<"f">>, <<"g">>>>,
                         HelperPath) # <<>>

\* the new-side start b of every hunk header of the form +b,0 with b >= 1
PureDeletionStarts(lines) ==
    {b \in {HunkNewStart(lines[k]) :
               k \in {j \in 1..Len(lines) :
                         /\ IsHunkLine(lines[j])
                         /\ HunkMatches(lines[j])
                         /\ EndsWith(lines[j], <<",","0"," ","@","@">>)}} :
        b >= 1}

\* the tests of both versions whose first line in the current version is b
RetainedTestsAt(current_tests, previous_tests, b) ==
    {name \in DictKeys(current_tests) \cap DictKeys(previous_tests) :
        DictGet(current_tests, name).start = b}

\* C14: for a hunk that only removes lines, with the header +b,0 because the
\* lines were removed after line b of the current version, the changed lines
\* hold b, and a test of both versions whose first line is b is reported as
\* MODIFIED.
C14_DeletionAfterLine ==
    TestFilesAnalyzed /\ <<"M">> \in StatusesOf(TestPath) =>
        \A b \in PureDeletionStarts(
                     Split(get_file_diff(repo, CommitSha, TestPath))) :
            /\ b \in get_changed_lines(repo, CommitSha, TestPath)
            /\ \A name \in RetainedTestsAt(
                    extract_tests_with_lines(
                        get_file_content(repo, CommitSha, TestPath)),
                    extract_tests_with_lines(
                        get_file_content(repo, ParentSha, TestPath)), b) :
                  <<name, TestPath, MODIFIED>>
                      \in {Kind(all_impacts[k]) : k \in From("direct")}

(***************************************************************************)
(* Specification of print_results alone: the removal of duplicates from any *)
(* list of impacts.  A path and a test name may both hold ':'.              *)
(***************************************************************************)
NestedPath == TestPath \o <<":">> \o TestPath
ShortName == <<"n">>
PathLikeName == TestPath \o <<":">> \o ShortName

ImpactPool ==
    {TestImpact(test_name, file_path, ADDED, {}, None) :
        test_name \in {ShortName, PathLikeName},
        file_path \in {TestPath, NestedPath}}
    \cup {TestImpact(test_name, file_path, MODIFIED, {},
                     HelperName(HelperPath, func)) :
             test_name \in {ShortName, PathLikeName},
             file_path \in {TestPath, NestedPath},
             func \in {<<"f">>, <<"g">>}}

InitAgg ==
    /\ pc = "returned"
    /\ all_impacts \in SeqsUpTo(ImpactPool, MaxImpacts)
    /\ repo = [name_status |-> <<>>, rev_parse |-> <<>>, show |-> <<>>,
               diff |-> <<>>, diff_head |-> <<>>, ls_files |-> <<>>,
               failed |-> {}]
    /\ test_files = <<>>
    /\ helper_files = <<>>
    /\ origin = <<>>
    /\ calls = <<>>
    /\ unique_impacts = <<>>
    /\ DiffIdle
    /\ SpanIdle
    /\ ExtractIdle

NextAgg == PrintResults

SpecAgg == InitAgg /\ [][NextAgg]_vars

\* the positions of impacts that are about the test test_name of file_path
About(impacts, file_path, test_name) ==
    {k \in 1..Len(impacts) :
        impacts[k].file_path = file_path /\ impacts[k].test_name = test_name}

\* C1: when a direct impact and one or more helper impacts of the input share
\* (file_path, test_name), the output holds exactly one record for that pair
\* and it is the direct one; a helper impact is kept only when no record
\* with its pair has been kept before it.
C1_DirectWins ==
    pc = "done" =>
        /\ \A d \in 1..Len(all_impacts) :
               (/\ ~HelperIsSet(all_impacts[d])
                /\ \E h \in About(all_impacts, all_impacts[d].file_path,
                                  all_impacts[d].test_name) :
                       HelperIsSet(all_impacts[h]))
                   => /\ Cardinality(About(unique_impacts,
                                           all_impacts[d].file_path,
                                           all_impacts[d].test_name)) = 1
                      /\ \A k \in About(unique_impacts,
                                        all_impacts[d].file_path,
                                        all_impacts[d].test_name) :
                             ~HelperIsSet(unique_impacts[k])
        /\ \A k \in 1..Len(unique_impacts) :
               HelperIsSet(unique_impacts[k])
                   => \A j \in About(unique_impacts,
                                     unique_impacts[k].file_path,
                                     unique_impacts[k].test_name) : j >= k

\* C12: two impacts are one entry only when their file_path and their
\* test_name are both equal: an impact is discarded only for a kept record
\* of its own (file_path, test_name), so every pair of the input has a
\* record in the output.
C12_PairIdentity ==
    pc = "done" =>
        \A k \in 1..Len(all_impacts) :
            About(unique_impacts, all_impacts[k].file_path,
                  all_impacts[k].test_name) # {}

(***************************************************************************)
(* Specification of analyze_commit and print_results for a test that calls  *)
(* two functions of the helper file, one line of which declares both        *)
(***************************************************************************)
ConstGFunctionF ==
    <<"c","o","n","s","t"," ","g","=","f","u","n","c","t","i","o","n"," ",
      "f","(",")","{">>

SharedTestVersions == { <<TestOpenA, CallF, CallG, TestClose>> }

SharedHelperVersions ==
    { <<ConstGFunctionF, Body1, BlockClose>>,
      <<FunctionF, BlockClose, ConstG, Body1, BlockClose>> }

SharedRepositories ==
    {Repository(t, h, head) :
        t \in FileChanges(TestPath, SharedTestVersions, {Assign}),
        h \in FileChanges(HelperPath, SharedHelperVersions, {Body2}),
        head \in {CommitSha, ParentSha}}

InitShared ==
    /\ pc = "start"
    /\ repo \in SharedRepositories
    /\ test_files = <<>>
    /\ helper_files = <<>>
    /\ all_impacts = <<>>
    /\ origin = <<>>
    /\ calls = <<>>
    /\ unique_impacts = <<>>
    /\ DiffIdle
    /\ SpanIdle
    /\ ExtractIdle

SpecShared == InitShared /\ [][Next]_vars

\* the lists the loop over the test files can append for files
RECURSIVE DirectRuns(_, _)
DirectRuns(r, files) ==
    IF Len(files) = 0 THEN {<<>>}
    ELSE {a \o b :
             a \in analyze_file_changes(r, CommitSha, Head(files).file_path,
                                        Head(files).status),
             b \in DirectRuns(r, Tail(files))}

\* the lists the loop over the helper files can append for files
RECURSIVE HelperRuns(_, _)
HelperRuns(r, files) ==
    IF Len(files) = 0 THEN {<<>>}
    ELSE {HelperImpactsFor(r, Head(files).file_path, functions) \o b :
             functions \in ChangedFunctionLists(r, CommitSha,
                                                Head(files).file_path,
                                                Head(files).status),
             b \in HelperRuns(r, Tail(files))}

\* what print_results keeps of the list analyze_commit returned
Reported(impacts) ==
    IF Len(impacts) = 0 THEN <<>> ELSE UniqueImpacts(impacts)

\* the results of all the runs of the pipeline on the changed files of r
RunsOn(r, changed_files) ==
    {Reported(d \o h) :
        d \in DirectRuns(r, Filter(changed_files,
                                   {f \in Items(changed_files) :
                                       IsTestFile(f.file_path)})),
        h \in HelperRuns(r, Filter(changed_files,
                                   {f \in Items(changed_files) :
                                       IsHelperFile(f.file_path)}))}

\* xs and ys hold the same records the same number of times
SameMultiset(xs, ys) ==
    \A x \in Items(xs) \cup Items(ys) :
        Cardinality({k \in 1..Len(xs) : xs[k] = x})
            = Cardinality({k \in 1..Len(ys) : ys[k] = x})

\* C11: any second run of analyze_commit and print_results on the same
\* commit and the same outputs of git yields the same multiset of records,
\* impacted_by_helper included, whatever the orders in which the sets of
\* names are iterated.
C11_SameMultiset ==
    pc = "done" =>
        \A second \in RunsOn(repo, get_commit_files(repo, CommitSha)) :
            SameMultiset(unique_impacts, second)

(***************************************************************************)
(* Specification of analyze_commit and print_results over repositories in   *)
(* which any of the git subcommands fail                                    *)
(***************************************************************************)
Subcommands == {"name_status", "rev_parse", "show", "diff", "ls_files"}

FailTestVersions == { <<TestOpenA, CallF, TestClose>> }

FailHelperVersions == { <<FunctionF, Body1, BlockClose>> }

FailingRepositories ==
    {[Repository(t, h, head) EXCEPT !.failed = failed] :
        t \in FileChanges(TestPath, FailTestVersions, {Assign}),
        h \in FileChanges(HelperPath, FailHelperVersions, {Body2}),
        head \in {CommitSha, ParentSha},
        failed \in SUBSET Subcommands}

InitFail ==
    /\ pc = "start"
    /\ repo \in FailingRepositories
    /\ test_files = <<>>
    /\ helper_files = <<>>
    /\ all_impacts = <<>>
    /\ origin = <<>>
    /\ calls = <<>>
    /\ unique_impacts = <<>>
    /\ DiffIdle
    /\ SpanIdle
    /\ ExtractIdle

SpecFail == InitFail /\ [][Next]_vars

\* every operation of GitRepo whose subcommand fails returns its empty value
EmptyOnFailure ==
    /\ Fails(repo, "name_status") => get_commit_files(repo, CommitSha) = <<>>
    /\ Fails(repo, "rev_parse") => get_parent_commit(repo, CommitSha) = <<>>
    /\ Fails(repo, "ls_files") => get_all_test_files(repo) = <<>>
    /\ \A path \in {TestPath, HelperPath} :
          /\ Fails(repo, "show") =>
                \A rev \in {CommitSha, ParentSha, HeadRev, <<>>} :
                    get_file_content(repo, rev, path) = <<>>
          /\ Fails(repo, "diff") =>
                /\ get_file_diff(repo, CommitSha, path) = <<>>
                /\ get_changed_lines(repo, CommitSha, path) = {}

\* a failing listing of the changed files leaves analyze_commit with the
\* empty list
EmptyOnFailedListing ==
    Returned /\ Fails(repo, "name_status") => all_impacts = <<>>

\* the step that analyze_commit is about to take yields a result
StepDefined ==
    /\ pc = "analyze" /\ test_files # <<>> =>
          analyze_file_changes(repo, CommitSha, Head(test_files).file_path,
                               Head(test_files).status) # {}
    /\ pc = "analyze" /\ test_files = <<>> /\ helper_files # <<>> =>
          ChangedFunctionLists(repo, CommitSha, Head(helper_files).file_path,
                               Head(helper_files).status) # {}

\* a bound on the number of steps that main has yet to take
StepsLeft ==
    IF pc = "start" THEN Len(get_commit_files(repo, CommitSha)) + 3
    ELSE IF pc = "analyze" THEN Len(test_files) + Len(helper_files) + 2
    ELSE IF pc = "returned" THEN 1
    ELSE 0

\* C13: a failing git subcommand is turned into an empty value (no files, the
\* empty content, the empty parent, the empty diff and so no changed lines,
\* no test files); whichever subcommands fail, analyze_commit runs to its
\* end (every step it is about to take yields a result, and every step
\* leaves fewer steps to take) and returns a list, the empty one when the
\* listing of the changed files failed.
C13_FailuresAreEmpty ==
    /\ [](EmptyOnFailure /\ EmptyOnFailedListing /\ StepDefined)
    /\ [][StepsLeft' < StepsLeft]_vars

\* analyze_commit has gone through a test file and a helper file, and has
\* impacts to return, while the parent commit could not be resolved
C13_Witness ==
    /\ Returned
    /\ Fails(repo, "rev_parse")
    /\ calls # <<>>
    /\ \E k \in 1..Len(origin) : origin[k] = "direct"
    /\ \E k \in 1..Len(origin) : origin[k] = "helper"

(***************************************************************************)
(* Specification of the span scans alone                                    *)
(***************************************************************************)
SpanLinePool ==
    { <<"{">>, <<"}">>, <<"x">>, <<"}","}">>, <<"{","{">>, <<"}","{">> }

InitSpan ==
    /\ pc = "span"
    /\ span_kind \in {"test", "function"}
    /\ span_lines \in SeqsUpTo(SpanLinePool, MaxSpanLines)
    /\ span_start \in 1..Len(span_lines)
    /\ span_end = 0
    /\ DiffIdle
    /\ RunIdle
    /\ ExtractIdle

FindTestEnd ==
    /\ pc = "span"
    /\ span_kind = "test"
    /\ span_end' = find_test_end(span_lines, span_start)
    /\ pc' = "done"
    /\ UNCHANGED <<span_kind, span_lines, span_start, diffVars, runVars,
                   extractVars>>

FindFunctionEnd ==
    /\ pc = "span"
    /\ span_kind = "function"
    /\ span_end' = find_function_end(span_lines, span_start)
    /\ pc' = "done"
    /\ UNCHANGED <<span_kind, span_lines, span_start, diffVars, runVars,
                   extractVars>>

NextSpan == FindTestEnd \/ FindFunctionEnd

SpecSpan == InitSpan /\ [][NextSpan]_vars

(***************************************************************************)
(* Claims about the span scans                                              *)
(***************************************************************************)

\* the balance of '{' minus '}' over lines s..i
BalanceOver(lines, s, i) ==
    Cardinality(UNION {{<<j, k>> : k \in {h \in 1..Len(lines[j]) :
                                               lines[j][h] = "{"}} : j \in s..i})
    - Cardinality(UNION {{<<j, k>> : k \in {h \in 1..Len(lines[j]) :
                                                 lines[j][h] = "}"}} : j \in s..i})

\* the lines at which a span opened at s is closed
ClosingLines(lines, s) ==
    {i \in s..Len(lines) :
        /\ BalanceOver(lines, s, i) = 0
        /\ \E j \in s..i : BalanceOver(lines, s, j) > 0}

SpanEndClaimed(lines, s) ==
    IF ClosingLines(lines, s) = {} THEN Len(lines)
    ELSE CHOOSE i \in ClosingLines(lines, s) :
             \A j \in ClosingLines(lines, s) : i <= j

\* C9: for both block kinds the span end is the first scanned line whose
\* end-of-line balance is zero after a scanned line at or before it ended with
\* a positive balance, and the last line of the text when there is none.
C9_SpanEnd ==
    pc = "done" => span_end = SpanEndClaimed(span_lines, span_start)

\* C9 witness: a scan whose balance goes 1, -1, 0 has ended at the third line,
\* and one that never closes has ended at the last line
C9_Witness ==
    /\ pc = "done"
    /\ span_lines = << <<"{">>, <<"}","}">>, <<"{">>, <<"x">> >>
    /\ span_start = 1
    /\ span_end = 3

(***************************************************************************)
(* Diff texts                                                               *)
(***************************************************************************)
HunkA == <<"@","@"," ","-","5",",","2"," ","+","5",",","1"," ","@","@">>
HunkB == <<"@","@"," ","-","1",",","3"," ","+","1",",","4"," ","@","@">>
HunkC == <<"@","@"," ","-","1","2",",","3"," ","+","1","1",",","0"," ","@","@">>
HunkBad == <<"@","@"," ","b","a","d">>

DiffLinePool ==
    { HunkA, HunkB, HunkC, HunkBad,
      <<"+","x">>, <<"-","x">>,
      <<"+","+","+","x">>, <<"-","-","-","x">>,
      <<" ","c">>, <<>> }

DiffTexts == {Join(ls) : ls \in SeqsUpTo(DiffLinePool, MaxDiffLines)}

(***************************************************************************)
(* Specification of get_changed_lines alone                                 *)
(***************************************************************************)
InitDiff ==
    /\ pc = "diff"
    /\ diff_output \in DiffTexts
    /\ changed_lines = {}
    /\ SpanIdle
    /\ RunIdle
    /\ ExtractIdle

GetChangedLines ==
    /\ pc = "diff"
    /\ changed_lines' = ChangedLinesOf(diff_output)
    /\ pc' = "done"
    /\ UNCHANGED <<diff_output, spanVars, runVars, extractVars>>

NextDiff == GetChangedLines

SpecDiff == InitDiff /\ [][NextDiff]_vars

(***************************************************************************)
(* Claims about get_changed_lines                                           *)
(***************************************************************************)

\* the last well-formed hunk header before line k, or 0
LastHunkBefore(lines, k) ==
    LET hs == {h \in 1..(k - 1) : IsHunkLine(lines[h]) /\ HunkMatches(lines[h])}
    IN IF hs = {} THEN 0 ELSE CHOOSE h \in hs : \A g \in hs : g <= h

\* lines starting with '+++' or '---'
IsFileHeaderLike(line) ==
    StartsWith(line, <<"+","+","+">>) \/ StartsWith(line, <<"-","-","-">>)

\* the cursor before line k when exactly the lines in moving advance it
CursorBefore(lines, k, moving) ==
    LET h == LastHunkBefore(lines, k)
    IN (IF h = 0 THEN 0 ELSE HunkNewStart(lines[h]))
       + Cardinality({j \in (h + 1)..(k - 1) : j \in moving})

\* the result of the cursor algorithm when the lines in moving advance it
CursorResult(lines, moving) ==
    {CursorBefore(lines, k, moving) :
        k \in {j \in 1..Len(lines) : IsAddedLine(lines[j])}}
    \cup
    {CursorBefore(lines, k, moving) - 1 :
        k \in {j \in 1..Len(lines) : IsRemovedLine(lines[j])}}

\* the lines that move the cursor as C7 states it: every line that is neither
\* a hunk header nor a '-' (not '---') line
MovingAsClaimed(lines) ==
    {j \in 1..Len(lines) : ~IsHunkLine(lines[j]) /\ ~IsRemovedLine(lines[j])}

\* the same, less the lines that start with '+++' or '---'
MovingAmended(lines) ==
    {j \in MovingAsClaimed(lines) : ~IsFileHeaderLike(lines[j])}

\* C7 as stated: get_changed_lines equals the cursor algorithm in which a
\* well-formed hunk header sets the cursor, a malformed one leaves it, a '+'
\* line records the cursor and advances, a '-' line records cursor - 1, and
\* every other line advances the cursor.
C7_Original ==
    pc = "done" =>
        changed_lines = CursorResult(Split(diff_output),
                                     MovingAsClaimed(Split(diff_output)))

\* C7 amended: as C7, except that a line starting with '+++' or '---' neither
\* records nor moves the cursor; and the header @@ -5,2 +5,1 @@ followed by
\* one '-' line yields exactly {4}.
C7_CursorAlgorithm ==
    pc = "done" =>
        /\ changed_lines = CursorResult(Split(diff_output),
                                        MovingAmended(Split(diff_output)))
        /\ \A l \in DiffLinePool :
              (IsRemovedLine(l) /\ diff_output = Join(<<HunkA, l>>))
                  => changed_lines = {4}

\* C7 witness: a header, a '+++' line and a '+' line have been mapped, and a
\* header with one '-' line has been mapped
C7_Witness ==
    /\ pc = "done"
    /\ diff_output = Join(<<HunkA, <<"+","+","+","x">>, <<"+","x">>>>)
    /\ changed_lines = {5}

\* the diff of C8: the header @@ -1,3 +1,4 @@ and exactly one '+' line
IsOnePlusLineDiff(diff) ==
    \E l \in DiffLinePool :
        /\ IsAddedLine(l)
        /\ diff \in {Join(<<HunkB, l>>), Join(<<HunkB, l, <<>>>>)}

\* C8 as stated: for @@ -1,3 +1,4 @@ followed by exactly one '+' line the
\* mapping returns {2}.
C8_Original ==
    (pc = "done" /\ IsOnePlusLineDiff(diff_output)) => changed_lines = {2}

\* C8 amended: for @@ -1,3 +1,4 @@ followed by exactly one '+' line the
\* mapping returns {1}.
C8_OnePlusLine ==
    (pc = "done" /\ IsOnePlusLineDiff(diff_output)) => changed_lines = {1}

\* C8 witness: that diff has been mapped
C8_Witness ==
    /\ pc = "done"
    /\ diff_output = Join(<<HunkB, <<"+","x">>>>)
    /\ changed_lines = {1}

(***************************************************************************)
(* Specification of the two extractors alone                                *)
(***************************************************************************)
TestOpenTestB ==
    <<"t","e","s","t","(","'","b","'",",","(",")","=",">","{">>
SubmitC == <<"s","u","b","m","i","t","(","'","c","'",")">>
TestOneLineD ==
    <<"i","t","(","'","d","'",",","(",")","=",">","{","}",")">>

TestLinePool ==
    { TestOpenA, TestOpenTestB, SubmitC, TestOneLineD, Assign, TestClose }

FunctionNaN ==
    <<"f","u","n","c","t","i","o","n"," ","N","a","N","(",")","{">>
FunctionSwitch ==
    <<"f","u","n","c","t","i","o","n"," ","S","w","i","t","c","h","(",")","{">>
ConstIf == <<"c","o","n","s","t"," ","I","f","=","(",")","=",">","{">>
FunctionReturn ==
    <<"f","u","n","c","t","i","o","n"," ","r","e","t","u","r","n","(",")","{">>

FunctionLinePool ==
    { FunctionF, FunctionNaN, FunctionSwitch, ConstIf, FunctionReturn,
      BlockClose }

\* the texts of the given lines, with and without a line break after the
\* last line
TextsOf(pool) ==
    UNION {{Join(ls), Content(ls)} : ls \in SeqsUpTo(pool, MaxExtractLines)}

InitExtract ==
    /\ pc = "extract"
    /\ \/ ext_kind = "tests" /\ ext_content \in TextsOf(TestLinePool)
       \/ ext_kind = "functions" /\ ext_content \in TextsOf(FunctionLinePool)
    /\ ext_blocks = <<>>
    /\ DiffIdle
    /\ SpanIdle
    /\ RunIdle

ExtractTests ==
    /\ pc = "extract"
    /\ ext_kind = "tests"
    /\ ext_blocks' = extract_tests_with_lines(ext_content)
    /\ pc' = "done"
    /\ UNCHANGED <<ext_kind, ext_content, diffVars, spanVars, runVars>>

ExtractFunctions ==
    /\ pc = "extract"
    /\ ext_kind = "functions"
    /\ ext_blocks' = extract_functions_with_lines(ext_content)
    /\ pc' = "done"
    /\ UNCHANGED <<ext_kind, ext_content, diffVars, spanVars, runVars>>

NextExtract == ExtractTests \/ ExtractFunctions

SpecExtract == InitExtract /\ [][NextExtract]_vars

(***************************************************************************)
(* Claims about the extractors                                              *)
(***************************************************************************)

\* the contents of the quoted literals that are the first argument of a call
\* of line whose callee identifier is test or it
TestCallNames(line) ==
    {SubSeq(line, grp[1], grp[2] - 1) :
        grp \in {TestGroupAt(line, i, test_patterns[n]) :
                    i \in {j \in 1..Len(line) :
                              CharAt(line, j - 1) \notin WordChars},
                    n \in 1..Len(test_patterns)} \ {<<0, 0>>}}

\* C15: extract_tests_with_lines returns a block for a line only if the line
\* holds a call whose callee identifier is exactly test or it and whose first
\* argument is a quoted literal, and the name of the block is what the
\* literal holds; a call of another identifier, one that ends in the
\* letters test or it included, gives no block.
C15_OnlyTestCalls ==
    pc = "done" /\ ext_kind = "tests" =>
        \A k \in 1..Len(ext_blocks) :
            ext_blocks[k].name
                \in TestCallNames(Split(ext_content)[ext_blocks[k].start])
AnchoredNames(lines) ==
    {FunctionPatternName(lines[k], FunctionPatternSearch(lines[k], n)) :
        k \in {j \in 1..Len(lines) :
                  \E m \in 1..3 :
                      FunctionPatternMatches(
                          FunctionPatternSearch(lines[j], m))},
        n \in 1..3} \ {<<>>}

\* C17: extract_functions_with_lines leaves an anchored name out if and only
\* if the name is in the keyword set: the names of the returned dict are the
\* anchored names that are not in js_keywords.
C17_KeywordsOnly ==
    pc = "done" /\ ext_kind = "functions" =>
        DictKeys(ext_blocks) = AnchoredNames(Split(ext_content)) \ js_keywords
====
